---- MODULE Spec2Model ----
(***************************************************************************)
(* Model of lmformatenforcer/integrations/transformers.py.                 *)
(*                                                                         *)
(* Two specifications:                                                     *)
(*   SpecTokens  build_regular_tokens_list applied to a tokenizer drawn    *)
(*               from a bounded family (a pure function of the tokenizer). *)
(*   Spec        a client calling the two other public entry points,       *)
(*               build_transformers_prefix_allowed_tokens_fn and           *)
(*               generate_enforced, on one model instance, one call at a   *)
(*               time, frame by frame.                                     *)
(*                                                                         *)
(* Text is a sequence of one-character strings.                            *)
(***************************************************************************)
EXTENDS Integers, Sequences, FiniteSets, TLC

VARIABLES
    tokenizer,          \* the tokenizer capability handed to the call
    phase,              \* SpecTokens: "input" before the call, "done" after
    tokens_result,      \* SpecTokens: what build_regular_tokens_list gave
    kwargs,             \* **kwargs of the current / most recent generate_enforced call
    stack,              \* Python call stack of the call in progress (frames)
    exc,                \* exception in flight, "none" when there is none
    outcome,            \* what the client got from the most recent finished call
    nDone,              \* number of finished top-level calls
    get_logits_warper,  \* model._get_logits_warper (a reference)
    host_calls,         \* invocations of model.generate so far, in order
    mgr,                \* the LogitsSaverManager objects: old_warper, warper
    snapshots,          \* per analyzer, what report_raw_logits was given, in order
    log,                \* replace / unreplace calls made so far, in order
    factory_result,     \* what the last model._get_logits_warper(config) call gave
    step,               \* the last run of a stage list (or of one stage) on a batch
    adapter_log         \* calls of a TransformersPrefixAllowedTokensFn, in order

\* The state of the classes a client drives directly (SpecAdapter,
\* SpecManager, SpecStage).
cvars == <<mgr, snapshots, log, factory_result, step, adapter_log>>

vars == <<tokenizer, phase, tokens_result, kwargs, stack, exc, outcome, nDone,
          get_logits_warper, host_calls, cvars>>

(***************************************************************************)
(* Bounds.                                                                 *)
(***************************************************************************)
MaxVocab == 3
MaxEncLen == 2
MaxBatch == 3
MaxBeams == 2
MaxCalls == 2

(***************************************************************************)
(* The tokenizer capability (transformers' PreTrainedTokenizerBase).       *)
(* A tokenizer is a record                                                 *)
(*   vocab_size       tokenizer.vocab_size                                 *)
(*   all_special_ids  tokenizer.all_special_ids (ids beyond vocab_size     *)
(*                    occur in practice: added special tokens)             *)
(*   encode0          tokenizer.encode("0"), a list of ids, possibly empty *)
(*   word_start       the ids whose piece starts a new word (rendered with *)
(*                    a space before it when it is not first)              *)
(***************************************************************************)
TokenIds == 0..(MaxVocab - 1)

Letters == <<"a", "b", "c", "d", "e", "f", "g", "h">>

\* The characters of token id: 0, 1 or 2 of them, so that the family holds
\* tokens (and sentinels) of every one of these rendered lengths.
Piece(id) == [k \in 1..(id % 3) |-> Letters[(id % 8) + 1]]

RECURSIVE RawText(_, _)
RawText(tok, ids) ==
    IF ids = <<>> THEN <<>>
    ELSE (IF Head(ids) \in tok.word_start THEN <<" ">> ELSE <<>>)
         \o Piece(Head(ids)) \o RawText(tok, Tail(ids))

\* tokenizer.decode(ids): the pieces joined, a word-start piece preceded by a
\* space, the space in front of the whole text dropped (sentencepiece).
decode(tok, ids) ==
    LET raw == RawText(tok, ids)
    IN  IF raw # <<>> /\ Head(raw) = " " THEN Tail(raw) ELSE raw

SeqsUpTo(S, n) == UNION {[1..k -> S] : k \in 0..n}

Tokenizers ==
    [vocab_size : 0..MaxVocab,
     all_special_ids : SUBSET (0..MaxVocab),
     encode0 : SeqsUpTo(TokenIds, MaxEncLen),
     word_start : SUBSET TokenIds]

(***************************************************************************)
(* build_regular_tokens_list (lines 54-63).                                *)
(***************************************************************************)
\* Python's s[1:]
DropFirst(s) == SubSeq(s, 2, Len(s))

\* A plausible slip: the special ids are not skipped.
RECURSIVE regular_tokens_loop_noskip(_, _, _, _)
regular_tokens_loop_noskip(tok, token_0, token_idx, regular_tokens) ==
    IF token_idx >= tok.vocab_size THEN regular_tokens
    ELSE regular_tokens_loop_noskip(tok, token_0, token_idx + 1,
             Append(regular_tokens,
                    <<token_idx, DropFirst(decode(tok, <<token_0, token_idx>>))>>))

\* The loop of lines 57-62, from token_idx on, regular_tokens being the list
\* built so far.
RECURSIVE regular_tokens_loop(_, _, _, _)
regular_tokens_loop(tok, token_0, token_idx, regular_tokens) ==
    IF token_idx >= tok.vocab_size THEN regular_tokens
    ELSE IF token_idx \in tok.all_special_ids
         THEN regular_tokens_loop(tok, token_0, token_idx + 1, regular_tokens)
         ELSE regular_tokens_loop(tok, token_0, token_idx + 1,
                  Append(regular_tokens,
                         <<token_idx, DropFirst(decode(tok, <<token_0, token_idx>>))>>))

\* The call: [exc, value]. tokenizer.encode("0")[-1] raises IndexError on an
\* empty list (line 55).
build_regular_tokens_list(tok) ==
    IF tok.encode0 = <<>>
    THEN [exc |-> "IndexError", value |-> <<>>]
    ELSE LET token_0 == tok.encode0[Len(tok.encode0)]
         IN  [exc |-> "none", value |-> regular_tokens_loop(tok, token_0, 0, <<>>)]

(***************************************************************************)
(* The classes a client can use directly. Before any use: no manager       *)
(* holds anything (lines 34-35), no analyzer has a snapshot.               *)
(***************************************************************************)
Managers == {"A", "B"}

NoFactoryResult == [exc |-> "pending", value |-> <<>>]

NoStep == [ran |-> FALSE]

InitComponents ==
    /\ mgr = [m \in Managers |-> [old_warper |-> "None", warper |-> "None"]]
    /\ snapshots = [m \in Managers |-> <<>>]
    /\ log = <<>>
    /\ factory_result = NoFactoryResult
    /\ step = NoStep
    /\ adapter_log = <<>>

(***************************************************************************)
(* SpecTokens: the client calls build_regular_tokens_list(tokenizer).      *)
(***************************************************************************)
NoKwargs == [batch |-> 0, has_num_beams |-> FALSE, num_beams |-> 1,
             return_dict_in_generate |-> "absent", output_scores |-> "absent"]

NoOutcome == [fn |-> "none", raised |-> "none", has_output |-> FALSE,
              enforced_scores |-> FALSE, regular_tokens |-> <<>>]

NoResult == [exc |-> "pending", value |-> <<>>]

InitTokens ==
    /\ tokenizer \in Tokenizers
    /\ phase = "input"
    /\ tokens_result = NoResult
    /\ kwargs = NoKwargs
    /\ stack = <<>>
    /\ exc = "none"
    /\ outcome = NoOutcome
    /\ nDone = 0
    /\ get_logits_warper = "original"
    /\ host_calls = <<>>
    /\ InitComponents

CallBuildRegularTokensList ==
    /\ phase = "input"
    /\ phase' = "done"
    /\ tokens_result' = build_regular_tokens_list(tokenizer)
    /\ UNCHANGED <<tokenizer, kwargs, stack, exc, outcome, nDone,
                   get_logits_warper, host_calls>>
    /\ UNCHANGED cvars

NextTokens == CallBuildRegularTokensList

SpecTokens == InitTokens /\ [][NextTokens]_vars

(***************************************************************************)
(* C9: for every vocabulary size and every set of special ids, the list    *)
(* build_regular_tokens_list returns holds no special id and holds every   *)
(* other id of 0..vocab_size-1 exactly once, in strictly ascending order.  *)
(***************************************************************************)
ResultIds == {tokens_result.value[i][1] : i \in 1..Len(tokens_result.value)}

C9_RegularTokensExact ==
    (phase = "done" /\ tokens_result.exc = "none") =>
        LET r == tokens_result.value
        IN  /\ \A i \in 1..(Len(r) - 1) : r[i][1] < r[i + 1][1]
            /\ ResultIds = (0..(tokenizer.vocab_size - 1)) \ tokenizer.all_special_ids

\* A list of two or more ids was returned with a special id of the range left out.
C9_Witness ==
    /\ phase = "done"
    /\ tokens_result.exc = "none"
    /\ Len(tokens_result.value) >= 2
    /\ \E i \in tokenizer.all_special_ids : i < tokenizer.vocab_size

(***************************************************************************)
(* C10: for every non-special id the stored text is decode([sentinel, id]) *)
(* with exactly the sentinel's own decoded length removed from the front,  *)
(* whatever that length is (0, 1 or more characters).                      *)
(***************************************************************************)
Sentinel == tokenizer.encode0[Len(tokenizer.encode0)]

\* s with its first n characters removed
DropN(s, n) == SubSeq(s, n + 1, Len(s))

C10_TrimsSentinelLength ==
    (phase = "done" /\ tokens_result.exc = "none") =>
        \A i \in 1..Len(tokens_result.value) :
            LET id == tokens_result.value[i][1]
                text == tokens_result.value[i][2]
            IN  text = DropN(decode(tokenizer, <<Sentinel, id>>),
                             Len(decode(tokenizer, <<Sentinel>>)))

(***************************************************************************)
(* Spec: a client of the module, one call at a time on one model instance. *)
(* Both entry points stop at line 79 (see BuildFnLine79), so lines 80-81   *)
(* and 95-121 are never run and have no action here.                       *)
(*                                                                         *)
(* Python resolves a global name when the line that uses it runs: in the   *)
(* module's globals, then in the builtins, else NameError.                 *)
(***************************************************************************)
\* Every name the module binds at import (lines 1-16 imports, the class and
\* def statements of lines 18, 29, 54, 66, 75, 84, and __all__ of line 123).
ModuleGlobals ==
    {"Any", "Callable", "List", "Tuple", "Union",
     "AutoModelForCausalLM", "LogitsWarper", "PrefixConstrainedLogitsProcessor",
     "PreTrainedTokenizerBase", "torch",
     "CharacterLevelParser", "TokenEnforcer", "FormatEnforcerAnalyzer",
     "LogitsSaverWarper", "LogitsSaverManager",
     "build_regular_tokens_list",
     "TransformersPrefixAllowedTokensFn",
     "build_transformers_prefix_allowed_tokens_fn",
     "generate_enforced", "__all__"}

\* The exception, if any, that evaluating the global name raises.
LookupGlobal(name) == IF name \in ModuleGlobals THEN "none" ELSE "NameError"

Frame(fn, line) == [fn |-> fn, line |-> line]

Top == stack[Len(stack)]

\* The only try statement of the module is generate_enforced's, lines 111-114,
\* around the host call of line 112.
InTry(frame) == frame.fn = "generate_enforced" /\ frame.line = 112

Truthy(v) == v = "True"

\* **kwargs of generate_enforced, as far as the function reads them:
\*   batch                    kwargs['input_ids'].shape[0]
\*   has_num_beams, num_beams kwargs.get('num_beams', 1)
\*   return_dict_in_generate  kwargs.get('return_dict_in_generate', False)
\*   output_scores            kwargs.get('output_scores', None)
Kwargs ==
    {kw \in [batch : 0..MaxBatch,
             has_num_beams : BOOLEAN,
             num_beams : 0..MaxBeams,
             return_dict_in_generate : {"absent", "False", "True"},
             output_scores : {"absent", "False", "True"}] :
        ~kw.has_num_beams => kw.num_beams = 1}

\* The tokenizers of Spec: a part of the family, to keep the product with the
\* kwargs small.
SpecTokenizers ==
    {t \in Tokenizers : /\ t.word_start = {}
                        /\ Len(t.encode0) <= 1
                        /\ t.all_special_ids \subseteq {0}}

Init ==
    /\ tokenizer \in SpecTokenizers
    /\ phase = "input"
    /\ tokens_result = NoResult
    /\ kwargs = NoKwargs
    /\ stack = <<>>
    /\ exc = "none"
    /\ outcome = NoOutcome
    /\ nDone = 0
    /\ get_logits_warper = "original"
    /\ host_calls = <<>>
    /\ InitComponents

\* The client calls generate_enforced(model, tokenizer, parser, **kw): the
\* frame starts at the first statement, line 93.
CallGenerateEnforced ==
    /\ stack = <<>>
    /\ nDone < MaxCalls
    /\ \E kw \in Kwargs : kwargs' = kw
    /\ stack' = <<Frame("generate_enforced", 93)>>
    /\ host_calls' = <<>>
    /\ outcome' = NoOutcome
    /\ UNCHANGED <<tokenizer, phase, tokens_result, exc, nDone, get_logits_warper>>
    /\ UNCHANGED cvars

\* The client calls build_transformers_prefix_allowed_tokens_fn(tokenizer,
\* parser) itself: the frame starts at line 79.
CallBuildFn ==
    /\ stack = <<>>
    /\ nDone < MaxCalls
    /\ stack' = <<Frame("build_transformers_prefix_allowed_tokens_fn", 79)>>
    /\ outcome' = NoOutcome
    /\ UNCHANGED <<tokenizer, phase, tokens_result, kwargs, exc, nDone,
                   get_logits_warper, host_calls>>
    /\ UNCHANGED cvars

\* Line 93: generate_enforced calls build_transformers_prefix_allowed_tokens_fn.
GenerateEnforcedLine93 ==
    /\ stack # <<>>
    /\ exc = "none"
    /\ Top = Frame("generate_enforced", 93)
    /\ LookupGlobal("build_transformers_prefix_allowed_tokens_fn") = "none"
    /\ stack' = Append(stack, Frame("build_transformers_prefix_allowed_tokens_fn", 79))
    /\ UNCHANGED <<tokenizer, phase, tokens_result, kwargs, exc, outcome, nDone,
                   get_logits_warper, host_calls>>
    /\ UNCHANGED cvars

\* Line 79: regular_tokens = _build_regular_tokens_list(tokenizer). The callee
\* name is evaluated first; the module binds build_regular_tokens_list (line
\* 54) and no _build_regular_tokens_list, so the evaluation raises NameError
\* and lines 80-81 are never run.
BuildFnLine79 ==
    /\ stack # <<>>
    /\ exc = "none"
    /\ Top = Frame("build_transformers_prefix_allowed_tokens_fn", 79)
    /\ LookupGlobal("_build_regular_tokens_list") # "none"
    /\ exc' = LookupGlobal("_build_regular_tokens_list")
    /\ UNCHANGED <<tokenizer, phase, tokens_result, kwargs, stack, outcome, nDone,
                   get_logits_warper, host_calls>>
    /\ UNCHANGED cvars

\* An exception leaves a frame that is not inside a try statement.
Unwind ==
    /\ stack # <<>>
    /\ exc # "none"
    /\ ~InTry(Top)
    /\ Len(stack) > 1
    /\ stack' = SubSeq(stack, 1, Len(stack) - 1)
    /\ UNCHANGED <<tokenizer, phase, tokens_result, kwargs, exc, outcome, nDone,
                   get_logits_warper, host_calls>>
    /\ UNCHANGED cvars

\* The exception leaves the outermost frame: the client's call raises it.
RaiseToClient ==
    /\ Len(stack) = 1
    /\ exc # "none"
    /\ ~InTry(Top)
    /\ outcome' = [fn |-> Top.fn, raised |-> exc, has_output |-> FALSE,
                   enforced_scores |-> FALSE, regular_tokens |-> <<>>]
    /\ stack' = <<>>
    /\ exc' = "none"
    /\ nDone' = nDone + 1
    /\ UNCHANGED <<tokenizer, phase, tokens_result, kwargs, get_logits_warper,
                   host_calls>>
    /\ UNCHANGED cvars

Next ==
    \/ CallGenerateEnforced
    \/ CallBuildFn
    \/ GenerateEnforcedLine93
    \/ BuildFnLine79
    \/ Unwind
    \/ RaiseToClient

Spec == Init /\ [][Next]_vars

(***************************************************************************)
(* What a finished generate_enforced call did, read off the host: the      *)
(* advanced path calls model.generate with the model patched and no        *)
(* prefix_allowed_tokens_fn (line 112), the filter-only path calls it with *)
(* prefix_allowed_tokens_fn (line 119).                                    *)
(***************************************************************************)
PathTaken ==
    IF host_calls = <<>> THEN "none"
    ELSE IF host_calls[1].prefix_allowed_tokens_fn THEN "filter_only"
    ELSE "advanced"

FinishedGenerateEnforced == stack = <<>> /\ outcome.fn = "generate_enforced"

DiagnosticsRequested(kw) ==
    Truthy(kw.return_dict_in_generate) /\ Truthy(kw.output_scores)

(***************************************************************************)
(* C5: generate_enforced takes the advanced path if and only if            *)
(* diagnostics are requested and the batch size is exactly 1 and the beam  *)
(* count is exactly 1, and the filter-only path for every other            *)
(* combination of these inputs (batch size 0 and beam count 0 included).   *)
(***************************************************************************)
C5_PathSelection ==
    FinishedGenerateEnforced =>
        PathTaken = (IF /\ DiagnosticsRequested(kwargs)
                        /\ kwargs.batch = 1
                        /\ kwargs.num_beams = 1
                     THEN "advanced" ELSE "filter_only")

(***************************************************************************)
(* C6: the output generate_enforced returns carries enforced_scores if and *)
(* only if the advanced path was used; with diagnostics requested and a    *)
(* batch size or a beam count above 1 the call falls back to the           *)
(* filter-only path and its output has no enforced_scores.                 *)
(***************************************************************************)
C6_EnforcedScoresIffAdvanced ==
    FinishedGenerateEnforced =>
        /\ outcome.has_output =>
               (outcome.enforced_scores <=> PathTaken = "advanced")
        /\ (/\ DiagnosticsRequested(kwargs)
            /\ (kwargs.batch > 1 \/ kwargs.num_beams > 1)) =>
               /\ PathTaken = "filter_only"
               /\ outcome.has_output => ~outcome.enforced_scores

(***************************************************************************)
(* C8: for a tokenizer with vocabulary size above 0 and an encodable       *)
(* sentinel, build_transformers_prefix_allowed_tokens_fn completes without *)
(* error and returns a callback whose token enforcer was built from the    *)
(* table build_regular_tokens_list computes for that tokenizer.            *)
(***************************************************************************)
C8_BuilderCompletes ==
    (/\ stack = <<>>
     /\ outcome.fn = "build_transformers_prefix_allowed_tokens_fn"
     /\ tokenizer.vocab_size > 0
     /\ tokenizer.encode0 # <<>>) =>
        /\ outcome.raised = "none"
        /\ outcome.has_output
        /\ outcome.regular_tokens = build_regular_tokens_list(tokenizer).value

(***************************************************************************)
(* Reachability under Spec: no call ever gets past line 93, so the host is *)
(* never called and the model is never patched.                            *)
(***************************************************************************)
HostNeverReached == host_calls = <<>> /\ get_logits_warper = "original"

(***************************************************************************)
(* C11: when the sentinel cannot be resolved (tokenizer.encode("0") yields *)
(* no token id) build_regular_tokens_list fails immediately with a         *)
(* ConfigurationError and produces no token table.                         *)
(***************************************************************************)
C11_ConfigurationError ==
    (phase = "done" /\ tokenizer.encode0 = <<>>) =>
        /\ tokens_result.exc = "ConfigurationError"
        /\ tokens_result.value = <<>>

(***************************************************************************)
(* TransformersPrefixAllowedTokensFn (lines 66-72) and the token enforcer  *)
(* it wraps.                                                               *)
(***************************************************************************)
MaxSeqLen == 2

\* A one-dimensional LongTensor: n elements, indexed from 0.
Tensors1D == UNION {[n : {k}, at : [0..(k - 1) -> TokenIds]] : k \in 0..MaxSeqLen}

\* torch.Tensor.tolist() of a one-dimensional tensor: a Python list of ints.
tolist(t) == [i \in 1..t.n |-> t.at[i - 1]]

\* The grammar of the spec's example: only "ab", with the vocabulary
\* 0:"a", 1:"b", 2:"c".
Grammar == {<<0, 1>>}

IsProperPrefix(s, g) == Len(s) < Len(g) /\ SubSeq(g, 1, Len(s)) = s

RECURSIVE SortedSeq(_)
SortedSeq(S) ==
    IF S = {} THEN <<>>
    ELSE LET least == CHOOSE x \in S : \A y \in S : x <= y
         IN  <<least>> \o SortedSeq(S \ {least})

\* TokenEnforcer.get_allowed_tokens(token_sequence): the ids the constraint
\* oracle permits after the ids so far, none when no continuation is valid.
get_allowed_tokens(token_sequence) ==
    SortedSeq({g[Len(token_sequence) + 1] :
                  g \in {h \in Grammar : IsProperPrefix(token_sequence, h)}})

\* A plausible slip: sent taken for the batch and indexed by batch_id.
TransformersPrefixAllowedTokensFn_call_indexed(batch_id, sent) ==
    LET all == tolist(sent)
        token_sequence == SubSeq(all, batch_id + 1, Len(all))
    IN  [passed |-> token_sequence, returned |-> get_allowed_tokens(token_sequence)]

\* __call__(batch_id, sent), lines 70-72: what the enforcer is passed and what
\* the caller gets back.
TransformersPrefixAllowedTokensFn_call(batch_id, sent) ==
    LET token_sequence == tolist(sent)
    IN  [passed |-> token_sequence, returned |-> get_allowed_tokens(token_sequence)]

pvars == <<tokenizer, phase, tokens_result, kwargs, stack, exc, outcome, nDone,
           host_calls>>

\* The ids so far a client passes: prefixes of the grammar's sequence and
\* sequences the grammar does not continue, over the ids 0 and 1.
Sents == {t \in Tensors1D : \A i \in 0..(t.n - 1) : t.at[i] <= 1}

\* A client (the host's decoding loop) calls the callback for sequence
\* batch_id of the batch with that sequence's ids so far.
CallAdapter ==
    /\ Len(adapter_log) < MaxCalls
    /\ \E batch_id \in 0..(MaxBatch - 1), sent \in Sents :
          LET r == TransformersPrefixAllowedTokensFn_call(batch_id, sent)
          IN  adapter_log' = Append(adapter_log,
                                    [batch_id |-> batch_id, sent |-> sent,
                                     passed |-> r.passed, result |-> r.returned])
    /\ UNCHANGED <<pvars, get_logits_warper, mgr, snapshots, log, factory_result, step>>

\* The classes below take no tokenizer and no kwargs: the corresponding
\* variables keep one value.
InitUnused ==
    /\ tokenizer = [vocab_size |-> MaxVocab, all_special_ids |-> {},
                    encode0 |-> <<0>>, word_start |-> {}]
    /\ phase = "input"
    /\ tokens_result = NoResult
    /\ kwargs = NoKwargs
    /\ stack = <<>>
    /\ exc = "none"
    /\ outcome = NoOutcome
    /\ nDone = 0
    /\ host_calls = <<>>

InitAdapter ==
    /\ InitUnused
    /\ get_logits_warper = "original"
    /\ InitComponents

NextAdapter == CallAdapter

SpecAdapter == InitAdapter /\ [][NextAdapter]_vars

(***************************************************************************)
(* C12: for every batch_id and every ids-so-far the callback returns       *)
(* exactly what the enforcer's get_allowed_tokens returns for the full     *)
(* ids-so-far, passed as a flat sequence of integers; the result depends   *)
(* neither on batch_id nor on the calls made before it, in whatever order. *)
(***************************************************************************)
SameIds(t, u) == t.n = u.n /\ \A i \in 0..(t.n - 1) : t.at[i] = u.at[i]

C12_AdapterForwardsFullSequence ==
    \A k \in 1..Len(adapter_log) :
        LET e == adapter_log[k]
        IN  /\ Len(e.passed) = e.sent.n
            /\ \A i \in 1..e.sent.n : e.passed[i] = e.sent.at[i - 1]
            /\ e.result = get_allowed_tokens(e.passed)
            /\ \A j \in 1..Len(adapter_log) :
                   SameIds(adapter_log[j].sent, e.sent)
                       => adapter_log[j].result = e.result

\* The same non-empty ids were asked for under two batch ids, and a token is
\* allowed.
C12_Witness ==
    \E j, k \in 1..Len(adapter_log) :
        /\ j < k
        /\ adapter_log[j].batch_id # adapter_log[k].batch_id
        /\ adapter_log[j].batch_id > 0
        /\ SameIds(adapter_log[j].sent, adapter_log[k].sent)
        /\ adapter_log[k].sent.n > 0
        /\ adapter_log[k].result # <<>>

(***************************************************************************)
(* LogitsSaverWarper and LogitsSaverManager (lines 18-52).                 *)
(*                                                                         *)
(* A reference to a stage factory is "original" (the model's own           *)
(* _get_logits_warper), "None", or a closure new_logits_warper made by a   *)
(* replace_logits_warper call of manager m with or without filter_func.    *)
(* The closure keeps filter_func; it reads self.old_warper when called.    *)
(***************************************************************************)
MaxEvents == 4
MaxFactoryEvents == 2
MaxOrigStages == 2
MaxSnapshots == 1

Wrapper(m, has_filter) ==
    CASE m = "A" /\ ~has_filter -> "wrapper_A"
      [] m = "A" /\ has_filter  -> "wrapper_A_filter"
      [] m = "B" /\ ~has_filter -> "wrapper_B"
      [] m = "B" /\ has_filter  -> "wrapper_B_filter"

IsWrapper(ref) == ref \in {Wrapper(m, f) : m \in Managers, f \in BOOLEAN}

WrapperMgr(ref) == CHOOSE m \in Managers : \E f \in BOOLEAN : ref = Wrapper(m, f)

WrapperFilter(ref) == \E m \in Managers : ref = Wrapper(m, TRUE)

\* The stages of a list: the recording stage LogitsSaverWarper(analyzer of m),
\* PrefixConstrainedLogitsProcessor(filter_func, 1), a stage of the host.
Saver(m) == [kind |-> "saver", of |-> m, idx |-> 0]

Filter(m) == [kind |-> "filter", of |-> m, idx |-> 0]

\* What the model's own _get_logits_warper(generation_config) returns: a
\* new list of the stages the configuration asks for.
OriginalStages(config) == [i \in 1..config |-> [kind |-> "orig", of |-> "host", idx |-> i]]

\* Python's list.insert(i, x)
InsertAt(l, i, x) ==
    LET at == IF i > Len(l) THEN Len(l) ELSE i
    IN  SubSeq(l, 1, at) \o <<x>> \o SubSeq(l, at + 1, Len(l))

\* A plausible slip: the constraint stage put in front of the recording stage
\* (both "prepended").
new_logits_warper_filter_first(m, has_filter, warpers) ==
    LET saved == InsertAt(warpers, 0, Saver(m))
    IN  IF has_filter THEN InsertAt(saved, 0, Filter(m)) ELSE saved

\* Lines 43-48: the list new_logits_warper returns, warpers being what
\* self.old_warper(generation_config) gave.
new_logits_warper(m, has_filter, warpers) ==
    LET saved == InsertAt(warpers, 0, Saver(m))
    IN  IF has_filter THEN InsertAt(saved, 1, Filter(m)) ELSE saved

\* Calling a factory reference with generation_config: [exc, value, made,
\* inner], made being the managers whose self.warper line 43 set and inner
\* what the outermost closure got from self.old_warper. Calling None raises
\* TypeError; a closure that reaches a closure of its own manager again calls
\* itself without end (RecursionError), since both read the same
\* self.old_warper.
RECURSIVE call_factory(_, _, _)
call_factory(ref, config, visited) ==
    IF ref = "None"
    THEN [exc |-> "TypeError", value |-> <<>>, made |-> {}, inner |-> <<>>]
    ELSE IF ref = "original"
    THEN [exc |-> "none", value |-> OriginalStages(config), made |-> {}, inner |-> <<>>]
    ELSE LET m == WrapperMgr(ref)
         IN  IF m \in visited
             THEN [exc |-> "RecursionError", value |-> <<>>, made |-> {}, inner |-> <<>>]
             ELSE LET got == call_factory(mgr[m].old_warper, config, visited \cup {m})
                  IN  IF got.exc # "none" THEN got
                      ELSE [exc |-> "none",
                            value |-> new_logits_warper(m, WrapperFilter(ref), got.value),
                            made |-> got.made \cup {m},
                            inner |-> got.value]

\* A plausible slip: unreplace_logits_warper forgets the assignment.
unreplace_logits_warper_noop(m) == get_logits_warper

\* Line 52: the value unreplace_logits_warper gives model._get_logits_warper.
unreplace_logits_warper(m) == mgr[m].old_warper

\* replace_logits_warper(filter_func) of manager m, lines 38-49, while fewer
\* than max calls were made.
replace_logits_warper(max) ==
    /\ Len(log) < max
    /\ \E m \in Managers, has_filter \in BOOLEAN :
          /\ mgr' = [mgr EXCEPT ![m].old_warper = get_logits_warper]
          /\ get_logits_warper' = Wrapper(m, has_filter)
          /\ log' = Append(log, [op |-> "replace", m |-> m, raised |-> "none",
                                 before |-> get_logits_warper,
                                 after |-> Wrapper(m, has_filter)])
    /\ UNCHANGED <<pvars, snapshots, factory_result, step, adapter_log>>

\* unreplace_logits_warper() of manager m, lines 51-52, while fewer than max
\* calls were made.
unreplace_logits_warper_call(max) ==
    /\ Len(log) < max
    /\ \E m \in Managers :
          /\ get_logits_warper' = unreplace_logits_warper(m)
          /\ log' = Append(log, [op |-> "unreplace", m |-> m, raised |-> "none",
                                 before |-> get_logits_warper,
                                 after |-> unreplace_logits_warper(m)])
    /\ UNCHANGED <<pvars, mgr, snapshots, factory_result, step, adapter_log>>

\* The host asks the model for its stage list:
\* model._get_logits_warper(generation_config).
HostGetWarpers ==
    /\ \E config \in 0..MaxOrigStages :
          LET got == call_factory(get_logits_warper, config, {})
          IN  /\ factory_result' = [exc |-> got.exc, value |-> got.value,
                                    inner |-> got.inner, via |-> get_logits_warper,
                                    config |-> config]
              /\ mgr' = [m \in Managers |->
                            IF m \in got.made THEN [mgr[m] EXCEPT !.warper = "saver"]
                            ELSE mgr[m]]
    /\ UNCHANGED <<pvars, get_logits_warper, snapshots, log, step, adapter_log>>

(***************************************************************************)
(* Running stages on a batch. A two-dimensional tensor is n rows indexed   *)
(* from 0, each a one-dimensional tensor; a score is "hi", "lo" or "-inf". *)
(***************************************************************************)
MaxRows == 2

\* torch.Tensor.tolist() of a two-dimensional tensor: a list of lists.
tolist2(t) == [i \in 1..t.n |-> tolist(t.row[i - 1])]

Batches(Rows) == UNION {[n : {k}, row : [0..(k - 1) -> Rows]] : k \in 0..MaxRows}

\* Rows of ids so far: none yet, a prefix of the grammar's sequence (0), and
\* ids the grammar does not continue (1).
IdRows == {t \in Tensors1D : t.n <= 1 /\ \A i \in 0..(t.n - 1) : t.at[i] <= 1}

ScoreRows ==
    {[n |-> MaxVocab, at |-> [t \in TokenIds |-> "hi"]],
     [n |-> MaxVocab, at |-> [t \in TokenIds |-> IF t = 0 THEN "lo" ELSE "hi"]]}

\* FormatEnforcerAnalyzer.report_raw_logits(ids, scores): one more snapshot.
report_raw_logits(snaps, ids, scores) == Append(snaps, [ids |-> ids, scores |-> scores])

RECURSIVE report_all(_, _, _, _)
report_all(snaps, cpu_inputs, cpu_scores, i) ==
    IF i > Len(cpu_inputs) \/ i > Len(cpu_scores) THEN snaps
    ELSE report_all(report_raw_logits(snaps, cpu_inputs[i], cpu_scores[i]),
                    cpu_inputs, cpu_scores, i + 1)

\* A plausible slip: only the first sequence of the batch is reported.
LogitsSaverWarper_call_first_only(snaps, input_ids, scores) ==
    LET cpu_inputs == tolist2(input_ids)
        cpu_scores == tolist2(scores)
    IN  [snaps |-> IF cpu_inputs # <<>> /\ cpu_scores # <<>>
                   THEN report_raw_logits(snaps, cpu_inputs[1], cpu_scores[1])
                   ELSE snaps,
         returned |-> scores]

\* LogitsSaverWarper.__call__(input_ids, scores), lines 22-27, snaps being the
\* analyzer's snapshots: zip stops at the shorter of the two lists.
LogitsSaverWarper_call(snaps, input_ids, scores) ==
    LET cpu_inputs == tolist2(input_ids)
        cpu_scores == tolist2(scores)
    IN  [snaps |-> report_all(snaps, cpu_inputs, cpu_scores, 1),
         returned |-> scores]

\* PrefixConstrainedLogitsProcessor(filter_func, 1).__call__ (transformers):
\* in each row, every id filter_func does not allow is masked to -inf.
PrefixConstrained_call(input_ids, scores) ==
    [n |-> scores.n,
     row |-> [b \in 0..(scores.n - 1) |->
                 LET allowed == TransformersPrefixAllowedTokensFn_call(b, input_ids.row[b]).returned
                     ok == {allowed[i] : i \in 1..Len(allowed)}
                 IN  [n |-> scores.row[b].n,
                      at |-> [t \in TokenIds |->
                                 IF t \in ok THEN scores.row[b].at[t] ELSE "-inf"]]]]

\* A stage of the host (a warper such as top-k): low scores are masked.
HostStage_call(scores) ==
    [n |-> scores.n,
     row |-> [b \in 0..(scores.n - 1) |->
                 [n |-> scores.row[b].n,
                  at |-> [t \in TokenIds |->
                             IF scores.row[b].at[t] = "hi" THEN "hi" ELSE "-inf"]]]]

\* LogitsProcessorList.__call__ (transformers): the stages run in list order,
\* each on the scores the one before it returned.
RECURSIVE run_stages(_, _, _, _)
run_stages(stages, input_ids, scores, snaps) ==
    IF stages = <<>> THEN [scores |-> scores, snaps |-> snaps]
    ELSE LET st == Head(stages)
         IN  IF st.kind = "saver"
             THEN LET r == LogitsSaverWarper_call(snaps[st.of], input_ids, scores)
                  IN  run_stages(Tail(stages), input_ids, r.returned,
                                 [snaps EXCEPT ![st.of] = r.snaps])
             ELSE IF st.kind = "filter"
             THEN run_stages(Tail(stages), input_ids,
                             PrefixConstrained_call(input_ids, scores), snaps)
             ELSE run_stages(Tail(stages), input_ids, HostStage_call(scores), snaps)

\* One decoding step of the host on one sequence: the stage list it got from
\* the model is run on the raw scores.
HostStep ==
    /\ factory_result.exc = "none"
    /\ \A m \in Managers : Len(snapshots[m]) < MaxSnapshots
    /\ \E ids \in IdRows, raw \in ScoreRows :
          LET input_ids == [n |-> 1, row |-> [b \in {0} |-> ids]]
              scores == [n |-> 1, row |-> [b \in {0} |-> raw]]
              r == run_stages(factory_result.value, input_ids, scores, snapshots)
          IN  /\ snapshots' = r.snaps
              /\ step' = [ran |-> TRUE, stages |-> factory_result.value,
                          input_ids |-> input_ids, scores |-> scores,
                          returned |-> r.scores, before |-> snapshots]
    /\ UNCHANGED <<pvars, get_logits_warper, mgr, log, factory_result, adapter_log>>

InitManager ==
    /\ InitUnused
    /\ get_logits_warper = "original"
    /\ InitComponents

\* SpecManager: clients install and uninstall, in any order.
Replace == replace_logits_warper(MaxEvents)

Unreplace == unreplace_logits_warper_call(MaxEvents)

NextManager ==
    \/ Replace
    \/ Unreplace

SpecManager == InitManager /\ [][NextManager]_vars

\* SpecFactory: fewer installs and uninstalls, and a host that asks for the
\* stage list and runs it.
ReplaceThenHost == replace_logits_warper(MaxFactoryEvents)

UnreplaceThenHost == unreplace_logits_warper_call(MaxFactoryEvents)

NextFactory ==
    \/ ReplaceThenHost
    \/ UnreplaceThenHost
    \/ HostGetWarpers
    \/ HostStep

SpecFactory == InitManager /\ [][NextFactory]_vars

(***************************************************************************)
(* SpecStage: a client calls one recording stage, LogitsSaverWarper(the    *)
(* analyzer of A), on batches of its choice.                               *)
(***************************************************************************)
MaxReported == 2

CallSaver ==
    /\ Len(snapshots["A"]) < MaxReported
    /\ \E input_ids \in Batches(IdRows), scores \in Batches(ScoreRows) :
          LET r == LogitsSaverWarper_call(snapshots["A"], input_ids, scores)
          IN  /\ snapshots' = [snapshots EXCEPT !["A"] = r.snaps]
              /\ step' = [ran |-> TRUE, stages |-> <<Saver("A")>>,
                          input_ids |-> input_ids, scores |-> scores,
                          returned |-> r.returned, before |-> snapshots]
    /\ UNCHANGED <<pvars, get_logits_warper, mgr, log, factory_result, adapter_log>>

NextStage == CallSaver

SpecStage == InitManager /\ [][NextStage]_vars

(***************************************************************************)
(* The events of one manager, and the ways two managers' calls interleave. *)
(***************************************************************************)
EventsOf(m) == SelectSeq(log, LAMBDA e : e.m = m)

Ops(events) == [i \in 1..Len(events) |-> events[i].op]

\* A manager was installed twice in a row, or uninstalled while not installed.
Misused(m) ==
    LET ev == EventsOf(m)
    IN  \E k \in 1..Len(ev) :
            \/ ev[k].op = "replace" /\ k > 1 /\ ev[k - 1].op = "replace"
            \/ ev[k].op = "unreplace" /\ (k = 1 \/ ev[k - 1].op = "unreplace")

(***************************************************************************)
(* C13: a second replace_logits_warper on a manager with no                *)
(* unreplace_logits_warper in between is rejected (a single-use guard):    *)
(* the saved original is not overwritten and a later                       *)
(* unreplace_logits_warper still restores the true original.               *)
(***************************************************************************)
C13_SecondInstallRejected ==
    \A m \in Managers :
        LET ev == EventsOf(m)
        IN  \A k \in 2..Len(ev) :
                (ev[k - 1].op = "replace" /\ ev[k].op = "replace") =>
                    /\ ev[k].raised # "none"
                    /\ k = Len(ev) => mgr[m].old_warper = ev[k - 1].before
                    /\ (k < Len(ev) /\ ev[k + 1].op = "unreplace") =>
                           ev[k + 1].after = ev[k - 1].before

\* The part of C13 about the restored reference alone: after replace, replace,
\* unreplace on one manager the model has what it had before the first.
C13_LaterUninstallRestoresOriginal ==
    \A m \in Managers :
        LET ev == EventsOf(m)
        IN  \A k \in 2..(Len(ev) - 1) :
                (/\ ev[k - 1].op = "replace" /\ ev[k].op = "replace"
                 /\ ev[k + 1].op = "unreplace") =>
                    ev[k + 1].after = ev[k - 1].before

(***************************************************************************)
(* C19: when the calls of two managers on one model overlap properly       *)
(* nested (A installs, B installs, B uninstalls, A uninstalls) the model's *)
(* _get_logits_warper is the original after the outer uninstall; only a    *)
(* non-nested interleaving (A installs, B installs, A uninstalls, B        *)
(* uninstalls) can leave the model patched with a wrapper once both have   *)
(* finished.                                                               *)
(***************************************************************************)
TwoCallsFinished ==
    /\ Len(log) = 4
    /\ \A m \in Managers : Ops(EventsOf(m)) = <<"replace", "unreplace">>

Nested ==
    /\ TwoCallsFinished
    /\ Ops(log) = <<"replace", "replace", "unreplace", "unreplace">>
    /\ log[3].m = log[2].m

NonNested ==
    /\ TwoCallsFinished
    /\ Ops(log) = <<"replace", "replace", "unreplace", "unreplace">>
    /\ log[3].m = log[1].m

C19_NestedRestoresOriginal ==
    TwoCallsFinished =>
        /\ Nested => get_logits_warper = log[1].before
        /\ get_logits_warper # log[1].before => NonNested

\* Two overlapping calls, properly nested, both with a filter, have finished.
C19_Witness ==
    /\ Nested
    /\ log[1].after = Wrapper("A", TRUE)
    /\ log[2].after = Wrapper("B", TRUE)
    /\ get_logits_warper = "original"

(***************************************************************************)
(* C15: while the interceptor is installed, each call of the patched       *)
(* factory returns the original factory's stage list, its stages in their  *)
(* order, with the recording stage first and, when a filter was supplied,  *)
(* the constraint stage right after it; so at every step the recording     *)
(* stage runs first and records the raw, unfiltered scores.                *)
(***************************************************************************)
IsOrig(st) == st.kind = "orig"

C16_OneReportPerSequence ==
    (step.ran /\ step.input_ids.n = step.scores.n) =>
        LET n == step.input_ids.n
            old == step.before["A"]
            now == snapshots["A"]
        IN  /\ Len(now) = Len(old) + n
            /\ SubSeq(now, 1, Len(old)) = old
            /\ \A i \in 1..n :
                   LET snap == now[Len(old) + i]
                       ids == step.input_ids.row[i - 1]
                       row == step.scores.row[i - 1]
                   IN  /\ Len(snap.ids) = ids.n
                       /\ \A j \in 1..ids.n : snap.ids[j] = ids.at[j - 1]
                       /\ Len(snap.scores) = row.n
                       /\ \A j \in 1..row.n : snap.scores[j] = row.at[j - 1]
            /\ step.returned = step.scores
            /\ snapshots["B"] = step.before["B"]
            /\ get_logits_warper = "original"
            /\ mgr = [m \in Managers |-> [old_warper |-> "None", warper |-> "None"]]
            /\ log = <<>>

\* A batch of two different sequences with different scores was reported
\* after an earlier call.
C16_Witness ==
    /\ step.ran
    /\ step.input_ids.n = 2
    /\ step.scores.n = 2
    /\ step.input_ids.row[0] # step.input_ids.row[1]
    /\ step.scores.row[0] # step.scores.row[1]
    /\ step.before["A"] # <<>>

====
